---- MODULE Spec2Model ----
(***************************************************************************)
(* A model of PTMCMCSampler/PTMCMCSampler.py: the parallel-tempering       *)
(* sampler PTSampler, one process per MPI rank.                            *)
(*                                                                         *)
(* Messages travel on one FIFO channel per (source, destination, tag); a   *)
(* send completes locally (the pickled messages are small), a recv blocks  *)
(* until the message is there, and an Iprobe sees a message from the       *)
(* moment it is sent (the probe that comes too early is the interleaving   *)
(* in which the probing step precedes the sending step).  An uncaught      *)
(* Python exception ends the process that raised it (pc = "crashed"); the  *)
(* other processes go on.                                                  *)
(*                                                                         *)
(* Every float of the program is modelled as an exact extended rational    *)
(* <<n, d>>: d > 0 a finite value in lowest terms, <<1, 0>> = +inf,        *)
(* <<-1, 0>> = -inf and <<0, 0>> = NaN.                                    *)
(***************************************************************************)
EXTENDS Integers, Sequences, FiniteSets, TLC

(***************************************************************************)
(* Extended rational arithmetic (the program's float arithmetic).          *)
(***************************************************************************)
Abs(a) == IF a < 0 THEN -a ELSE a

Sgn(a) == IF a < 0 THEN -1 ELSE IF a > 0 THEN 1 ELSE 0

RECURSIVE GCD(_, _)
GCD(a, b) == IF b = 0 THEN a ELSE GCD(b, a % b)

Norm(n, d) ==
    IF d = 0 THEN <<Sgn(n), 0>>
    ELSE LET g == GCD(Abs(n), Abs(d))
         IN  <<(Sgn(d) * n) \div g, Abs(d) \div g>>

XInt(i) == <<i, 1>>
XZero == <<0, 1>>
XOne == <<1, 1>>
PosInf == <<1, 0>>
NegInf == <<-1, 0>>
NaN == <<0, 0>>

IsFinite(a) == a[2] # 0

XNeg(a) == <<-a[1], a[2]>>

XAdd(a, b) ==
    IF IsFinite(a) /\ IsFinite(b) THEN Norm(a[1] * b[2] + b[1] * a[2], a[2] * b[2])
    ELSE IF a = NaN \/ b = NaN THEN NaN
    ELSE IF ~IsFinite(a) /\ ~IsFinite(b) THEN (IF a = b THEN a ELSE NaN)
    ELSE IF ~IsFinite(a) THEN a ELSE b

XSub(a, b) == XAdd(a, XNeg(b))

XMul(a, b) ==
    IF IsFinite(a) /\ IsFinite(b) THEN Norm(a[1] * b[1], a[2] * b[2])
    ELSE <<Sgn(a[1]) * Sgn(b[1]), 0>>

\* a / b in float arithmetic: x/0 is +-inf, 0/0 and inf/inf are NaN
XDiv(a, b) ==
    IF IsFinite(a) /\ IsFinite(b) THEN Norm(a[1] * b[2], a[2] * b[1])
    ELSE IF IsFinite(b) /\ a # NaN THEN <<Sgn(a[1]) * (IF b[1] < 0 THEN -1 ELSE 1), 0>>
    ELSE IF IsFinite(a) /\ b # NaN THEN XZero
    ELSE NaN

\* a > b in float arithmetic: every comparison with NaN is False
XGt(a, b) ==
    IF a = NaN \/ b = NaN THEN FALSE
    ELSE IF IsFinite(a) /\ IsFinite(b) THEN a[1] * b[2] > b[1] * a[2]
    ELSE IF ~IsFinite(a) /\ ~IsFinite(b) THEN a[1] > b[1]
    ELSE IF ~IsFinite(a) THEN a[1] > 0
    ELSE b[1] < 0

\* the square root of a rational that is the square of a rational
XSqrt(a) ==
    LET n == CHOOSE k \in 0..a[1] : k * k = a[1]
        d == CHOOSE k \in 1..a[2] : k * k = a[2]
    IN  <<n, d>>

RECURSIVE XPow(_, _)
XPow(a, k) == IF k = 0 THEN XOne ELSE XMul(a, XPow(a, k - 1))

XAbs(a) == <<Abs(a[1]), a[2]>>

(***************************************************************************)
(* The run's parameters.  The target (logl, logp), the starting points,    *)
(* the initial covariance and the resume files are the caller's; the       *)
(* proposal kernels are external and may propose any point.                *)
(***************************************************************************)
\* number of dimensions of the problem (ndim)
NDim == 2

\* Niter: iterations of one pass over a chain
Niter == 4

\* the effective-sample-size check runs every EssEvery iterations (10000 in
\* the code; scaled to the model's run length)
EssEvery == 3

\* the temperature of the hot chain (1e80 in the code; scaled to TLC's integers)
HotTemp == 1000

Dims == 1..NDim

ZeroVec == [d \in Dims |-> 0]

PtA == <<1, 0>>
PtB == <<0, 2>>
PtOut == <<3, 3>>

Points == {PtA, PtB, PtOut}

\* logl: the caller's log-likelihood
LogL(x) == XInt(-(x[1] * x[1] + x[2] * x[2]))

\* logp: the caller's log-prior, a box prior that is -inf outside the box
LogP(x) == IF x[1] <= 2 /\ x[2] <= 2 THEN XInt(-2) ELSE NegInf

\* log(np.random.rand()): rand() is in [0, 1), so the log is in [-inf, 0)
LogUs == {NegInf, <<-1, 4>>}

\* the Hastings log-ratios a proposal may return
Hastings == {XZero}

\* the values the effective-sample-size estimate may take
NeffValues == {0, 5}

DEName == "DifferentialEvolution"
AMName == "AM"

\* parameter groups (0-based indices in the code, 1-based here)
Groups == <<<<1>>, <<2>>>>

\* the caller's initial covariance matrix
Cov0 == <<<<XOne, XZero>>, <<XZero, XOne>>>>

\* a row of a chain file: parameters, then lnprob, lnlike, acceptance
\* fraction and swap-acceptance fraction
Row(x, T, acc) ==
    [x |-> x, lnprob |-> XAdd(XMul(XDiv(XOne, T), LogL(x)), LogP(x)),
     lnlike |-> LogL(x), acc |-> acc]

\* weights: the caller's dict of proposal weights, in insertion order
WithDE == <<<<AMName, 1>>, <<DEName, 1>>>>
NoDE == <<<<AMName, 1>>>>

\* the temperature ladder of the default spacing for NDim = 2: 1, 2, 4, ...
RECURSIVE Doubling(_)
Doubling(r) == IF r = 0 THEN 1 ELSE 2 * Doubling(r - 1)

\* the rows of rank r's chain file when the run resumes (<<>>: no file):
\* Niter rows written by an earlier run at the same temperature
NoFile == <<>>

File(r, T) ==
    [k \in 1..Niter |->
        Row(IF (k + r) % 2 = 0 THEN PtA ELSE PtB, XInt(T), 1)]

\* proposals: the points the proposal kernels of the run may propose
Config(n, passes, tskip, hot, w, files, proposals) ==
    [nchain |-> n, n_cold_chains |-> passes, Tskip |-> tskip, hotChain |-> hot,
     weights |-> w, covUpdate |-> 2, burn |-> 1, thin |-> 1, neff |-> 2,
     Tmin |-> XOne, Tmax |-> NaN,
     resume |-> \E r \in 0..(n - 1) : files[r] # NoFile,
     files |-> files,
     proposals |-> proposals,
     start |-> [r \in 0..(n - 1) |-> IF r = 1 THEN PtB ELSE PtA]]

\* two processes sampling organically
BothOrganic == Config(2, 1, 2, FALSE, WithDE, [r \in 0..1 |-> NoFile], {PtB, PtOut})

\* no DE proposal, a swap proposal in every iteration
NoDEJump == Config(2, 1, 1, FALSE, NoDE, [r \in 0..1 |-> NoFile], Points)

\* one process replaying its chain file, the other sampling organically
ColdOrganic ==
    Config(2, 1, 2, FALSE, WithDE, [r \in 0..1 |-> IF r = 1 THEN File(r, Doubling(r)) ELSE NoFile],
           Points)
HotOrganic ==
    Config(2, 1, 2, FALSE, WithDE, [r \in 0..1 |-> IF r = 0 THEN File(r, Doubling(r)) ELSE NoFile],
           Points)

\* three processes replaying their chain files, hot mode
Replay ==
    Config(3, 1, 2, TRUE, WithDE,
           [r \in 0..2 |-> File(r, IF r = 2 THEN HotTemp ELSE Doubling(r))], Points)

\* two processes replaying their chain files over two passes
TwoPasses ==
    Config(2, 2, 2, FALSE, WithDE, [r \in 0..1 |-> File(r, Doubling(r))], Points)

Configs == {BothOrganic, NoDEJump, ColdOrganic, HotOrganic, Replay, TwoPasses}

\* the proposals of the proposals module that the weights may name
SCAMName == "SCAM"
Funcs == {AMName, SCAMName, DEName}

\* the largest weight a proposal is registered with
MaxWeight == 2

\* the most calls of addProposalToCycle the caller makes itself
MaxRegs == 2

\* the weights dicts with the keys in the order keys, weights up to MaxWeight
WeightDicts(keys) ==
    {[k \in 1..Len(keys) |-> <<keys[k], f[k]>>] :
        f \in [1..Len(keys) -> 0..MaxWeight]}

\* one process, the weights dict w, every proposed point rejected by the prior
Single(w) == Config(1, 1, 2, FALSE, w, [r \in 0..0 |-> NoFile], {PtOut})

CycleConfigs ==
    {Single(w) : w \in WeightDicts(<<AMName, SCAMName>>)
                       \cup WeightDicts(<<SCAMName, DEName>>)
                       \cup WeightDicts(<<DEName>>)}

(***************************************************************************)
(* The state: the configuration, and each process's PTSampler object,      *)
(* position in sample() and local variables; the channels.                 *)
(***************************************************************************)
VARIABLES
    cfg,            \* the arguments of the constructor and of sample()
    pc,             \* "new", "barrier", "run", "propWait", "decWait", "done", "crashed"
    chainInd,       \* i of sample(): the pass of the outer loop
    iter,           \* iter of sample()
    p0, lnlike0, lnprob0,       \* the current point of sample()
    naccepted, swapProposed, nswap_accepted,
    ladder, temp,
    cov, U, S, M2, mu,
    AMbuffer,       \* rank 0's _AMbuffer
    DEbuffer,       \* _DEbuffer; set = FALSE while the attribute does not exist
    chain, lnlike, lnprob,      \* _chain, _lnlike, _lnprob
    propCycle, randomizedPropCycle, jumpDict,
    resumeLength,
    runComplete, Neff,
    chan,           \* chan[<<source, dest, tag>>]: the messages sent and not yet received
    swapLog,        \* per proposer rank: its last proposal, from its side
    decLog,         \* per decider rank: its last decision, from its side
    lastSwap,       \* per process: its last PTswap call
    registered,     \* per process: the calls of addProposalToCycle so far
    updaters, senders, committed, builtDE,  \* history of the adaptation traffic
    lastDraw        \* per process: the jump-proposal part of its last PTMCMCOneStep

vars == <<cfg, pc, chainInd, iter, p0, lnlike0, lnprob0, naccepted,
          swapProposed, nswap_accepted, ladder, temp, cov, U, S, M2, mu,
          AMbuffer, DEbuffer, chain, lnlike, lnprob, propCycle,
          randomizedPropCycle, jumpDict, resumeLength, runComplete, Neff,
          chan, swapLog, decLog, lastSwap, registered, updaters, senders,
          committed, builtDE, lastDraw>>

Procs == 0..(cfg.nchain - 1)

\* the message tags of the program
TagSwap == 18
TagParams == 19
TagTerm == 55
TagCov == 111
TagDE == 222
TagDecision == 888

Tags == {TagSwap, TagParams, TagTerm, TagCov, TagDE, TagDecision}

Links(n) == {<<s, d, t>> \in (0..(n - 1)) \X (0..(n - 1)) \X Tags : s # d}

Send(ch, s, d, t, m) == [ch EXCEPT ![<<s, d, t>>] = Append(@, m)]

Recv(ch, s, d, t) == [ch EXCEPT ![<<s, d, t>>] = Tail(@)]

Pending(ch, s, d, t) == s # d /\ ch[<<s, d, t>>] # <<>>

\* comm.Iprobe(source=s, tag=t) on process d: a message is visible from the
\* moment it is sent; the probe that comes too early is the step taken before
\* the sender's
Iprobe(ch, s, d, t) == Pending(ch, s, d, t)

(***************************************************************************)
(* Covariance factorization                                                *)
(***************************************************************************)
SubMatrix(c, group) ==
    [ii \in 1..Len(group) |-> [jj \in 1..Len(group) |-> c[group[ii]][group[jj]]]]

\* np.linalg.svd of a 1 x 1 matrix [[c]]: U = [[sign c]], S = [|c|]
Svd(m) ==
    [U |-> <<<<IF XGt(XZero, m[1][1]) THEN XInt(-1) ELSE XOne>>>>,
     S |-> <<XAbs(m[1][1])>>]

\* np.linalg.svd raises LinAlgError on a matrix with a NaN or an inf
SvdFails(c) == \E i \in Dims, j \in Dims : ~IsFinite(c[i][j])

\* "do svd on parameter groups": U[ct], S[ct] for every group ct
FactorU(c) == [ct \in 1..Len(Groups) |-> Svd(SubMatrix(c, Groups[ct])).U]
FactorS(c) == [ct \in 1..Len(Groups) |-> Svd(SubMatrix(c, Groups[ct])).S]

ZeroMat == [i \in Dims |-> [j \in Dims |-> XZero]]
ZeroMu == [i \in Dims |-> XZero]

\* swapLog[r]: the swap rank r last proposed to rank r + 1: what the
\* proposer held when it proposed (prop), what the decider held when it
\* decided (dec), the quantity compared with logU, and what the proposer
\* held when its PTswap returned (ret, got)
NoSwapLog ==
    [phase |-> "none", accepted |-> FALSE,
     propX |-> ZeroVec, propL |-> XZero, decX |-> ZeroVec, decL |-> XZero,
     qty |-> XZero, logU |-> XZero,
     ret |-> FALSE, gotX |-> ZeroVec, gotL |-> XZero]

\* registered[r]: the calls of addProposalToCycle on process r so far: how many
\* the caller made itself, how many had weight 0, and the weights added up
\* per proposal
NoCalls == [own |-> 0, zero |-> 0, total |-> [f \in Funcs |-> 0]]

\* lastDraw[r]: what the jump-proposal part of the last step of process r did:
\* replayed a row of the chain file, failed to build the proposal's context,
\* or drew a proposal; whether the proposed point had log-prior -inf, whether
\* logl was called, whether the jump was accepted, and whether the point, its
\* likelihood, its posterior or the acceptance counter changed, and the
\* factorization (U, S) the proposal was given
NoDraw ==
    [kind |-> "none", infeasible |-> FALSE, called |-> FALSE, accepted |-> FALSE,
     moved |-> FALSE, counted |-> FALSE, raised |-> FALSE, seen |-> <<>>]

\* decLog[d]: the last proposal rank d decided: what the proposer held when
\* it proposed (prop), what rank d held when it decided (dec), and what rank d
\* held when its PTswap returned (ret, got)
NoDecLog ==
    [phase |-> "none", accepted |-> FALSE,
     propX |-> ZeroVec, propL |-> XZero, decX |-> ZeroVec, decL |-> XZero,
     ret |-> FALSE, gotX |-> ZeroVec, gotL |-> XZero]

(***************************************************************************)
(* Init: every process has constructed its PTSampler (__init__).           *)
(***************************************************************************)
InitState(c) ==
    /\ cfg = c
    /\ pc = [r \in Procs |-> "new"]
    /\ chainInd = [r \in Procs |-> 0]
    /\ iter = [r \in Procs |-> 0]
    /\ p0 = [r \in Procs |-> cfg.start[r]]
    /\ lnlike0 = [r \in Procs |-> XZero]
    /\ lnprob0 = [r \in Procs |-> XZero]
    /\ naccepted = [r \in Procs |-> 0]
    /\ swapProposed = [r \in Procs |-> 0]
    /\ nswap_accepted = [r \in Procs |-> 0]
    /\ ladder = [r \in Procs |-> <<>>]
    /\ temp = [r \in Procs |-> XOne]
    /\ cov = [r \in Procs |-> Cov0]
    /\ U = [r \in Procs |-> FactorU(Cov0)]
    /\ S = [r \in Procs |-> FactorS(Cov0)]
    /\ M2 = [r \in Procs |-> ZeroMat]
    /\ mu = [r \in Procs |-> ZeroMu]
    /\ AMbuffer = <<>>
    /\ DEbuffer = [r \in Procs |-> [set |-> FALSE, rows |-> <<>>]]
    /\ chain = [r \in Procs |-> <<>>]
    /\ lnlike = [r \in Procs |-> <<>>]
    /\ lnprob = [r \in Procs |-> <<>>]
    /\ propCycle = [r \in Procs |-> <<>>]
    /\ randomizedPropCycle = [r \in Procs |-> <<>>]
    /\ jumpDict = [r \in Procs |-> <<>>]
    /\ resumeLength = [r \in Procs |-> 0]
    /\ runComplete = [r \in Procs |-> FALSE]
    /\ Neff = [r \in Procs |-> 0]
    /\ chan = [l \in Links(cfg.nchain) |-> <<>>]
    /\ swapLog = [r \in Procs |-> NoSwapLog]
    /\ decLog = [r \in Procs |-> NoDecLog]
    /\ lastSwap = [r \in Procs |-> [ret |-> -1, role |-> "none", exchanged |-> FALSE]]
    /\ registered = [r \in Procs |-> NoCalls]
    /\ updaters = {}
    /\ senders = {}
    /\ committed = {}
    /\ builtDE = {}
    /\ lastDraw = [r \in Procs |-> NoDraw]

Init == \E c \in Configs : InitState(c)

(***************************************************************************)
(* temperatureLadder                                                       *)
(***************************************************************************)
\* the k-th root of a rational that is the k-th power of a rational
XRoot(a, k) ==
    LET n == CHOOSE m \in 0..a[1] : XPow(XInt(m), k) = XInt(a[1])
        d == CHOOSE m \in 1..a[2] : XPow(XInt(m), k) = XInt(a[2])
    IN  <<n, d>>

\* a faulty variant of LadderStep: without the root
LadderStepWhole(n, Tmin, Tmax) ==
    IF Tmax = NaN
    THEN XAdd(XOne, XSqrt(XDiv(XInt(2), XInt(NDim))))
    ELSE XDiv(Tmax, Tmin)

\* tstep of temperatureLadder; Tmax = NaN stands for Tmax=None
LadderStep(n, Tmin, Tmax) ==
    IF Tmax = NaN
    THEN XAdd(XOne, XSqrt(XDiv(XInt(2), XInt(NDim))))
    ELSE XRoot(XDiv(Tmax, Tmin), n - 1)

TemperatureLadder(n, Tmin, Tmax) ==
    IF n > 1
    THEN [ii \in 0..(n - 1) |-> XMul(Tmin, XPow(LadderStep(n, Tmin, Tmax), ii))]
    ELSE [ii \in 0..0 |-> XOne]

\* "temperature for current chain" and "hot chain sampling from prior"
TempOf(r, lad, hotChain, n) ==
    IF hotChain /\ r = n - 1 THEN XInt(HotTemp) ELSE lad[r]

(***************************************************************************)
(* The proposal cycle                                                      *)
(***************************************************************************)
\* a faulty variant of Copies: one copy too few
CopiesShort(func, k) == [ii \in 1..(IF k > 1 THEN k - 1 ELSE 0) |-> func]

Copies(func, k) == [ii \in 1..(IF k > 0 THEN k ELSE 0) |-> func]

\* a faulty variant of CycleAfterAdd: without the check for weight 0, and with
\* a loop that runs at least once
CycleAddUnchecked(cycle, func, weight) ==
    cycle \o [ii \in 1..(IF weight > 0 THEN weight ELSE 1) |-> func]

\* addProposalToCycle: the cycle afterwards
CycleAfterAdd(cycle, func, weight) ==
    IF weight = 0 THEN cycle ELSE cycle \o Copies(func, weight)

\* a faulty variant of DictAfterAdd: registering starts the counters afresh
DictAfterAddReset(dict, func, weight) ==
    IF weight = 0 THEN dict
    ELSE [f \in DOMAIN dict \cup {func} |-> IF f = func THEN <<0, 0>> ELSE dict[f]]

\* addProposalToCycle: the jump dictionary afterwards
DictAfterAdd(dict, func, weight) ==
    IF weight = 0 THEN dict
    ELSE IF func \in DOMAIN dict THEN dict
    ELSE (func :> <<0, 0>>) @@ dict

Count(seq, e) == Cardinality({k \in 1..Len(seq) : seq[k] = e})

Keys(weights) == [k \in 1..Len(weights) |-> weights[k][1]]

WeightOf(weights, key) ==
    weights[CHOOSE k \in 1..Len(weights) : weights[k][1] = key][2]

HasKey(weights, key) == \E k \in 1..Len(weights) : weights[k][1] = key

\* default_weights(): weight 1 for every proposal of prop.__default__
DefaultWeights == <<<<AMName, 1>>>>

\* initialize_jump_proposals raises when DifferentialEvolution is the only key
JumpProposalsRaise(weights) ==
    LET w == IF Len(weights) = 0 THEN DefaultWeights ELSE weights
    IN  Keys(w) = <<DEName>>

RECURSIVE RegisterAll(_, _, _)
\* the loop of initialize_jump_proposals over weights.keys(), from key k on
RegisterAll(acc, w, k) ==
    IF k > Len(w) THEN acc
    ELSE IF w[k][1] # DEName
         THEN RegisterAll([cycle |-> CycleAfterAdd(acc.cycle, w[k][1], w[k][2]),
                           dict |-> DictAfterAdd(acc.dict, w[k][1], w[k][2])],
                          w, k + 1)
         ELSE RegisterAll(acc, w, k + 1)

InitializeJumpProposals(cycle, dict, weights) ==
    RegisterAll([cycle |-> cycle, dict |-> dict],
                IF Len(weights) = 0 THEN DefaultWeights ELSE weights, 1)

RECURSIVE Perms(_)
\* np.random.shuffle(index): the orders of the indices
Perms(I) ==
    IF I = {} THEN {<<>>}
    ELSE UNION {{<<i>> \o q : q \in Perms(I \ {i})} : i \in I}

\* randomizeProposalCycle: the orders np.random.shuffle can produce
Shuffles(cycle) ==
    {[k \in 1..Len(cycle) |-> cycle[index[k]]] : index \in Perms(1..Len(cycle))}

\* _jump: the proposals propCycle[ind] that ind = randint(0, length) can pick
JumpDraws(cycle) == {cycle[ind] : ind \in 1..Len(cycle)}

\* registered, after the call addProposalToCycle(func, weight)
Called(reg, func, weight, own) ==
    [own |-> reg.own + (IF own THEN 1 ELSE 0),
     zero |-> reg.zero + (IF weight = 0 THEN 1 ELSE 0),
     total |-> [reg.total EXCEPT ![func] = @ + weight]]

RECURSIVE CalledAll(_, _, _)
CalledAll(reg, calls, k) ==
    IF k > Len(calls) THEN reg
    ELSE CalledAll(Called(reg, calls[k][1], calls[k][2], FALSE), calls, k + 1)

\* the calls addProposalToCycle(key, weight) that initialize_jump_proposals makes
RegisterCalls(weights) ==
    LET w == IF Len(weights) = 0 THEN DefaultWeights ELSE weights
    IN  SelectSeq(w, LAMBDA e : e[1] # DEName)

(***************************************************************************)
(* updateChains                                                            *)
(***************************************************************************)
\* N = int(maxIter / thin), maxIter left at its default
StoreLen(r, thin) == (IF r > 0 THEN 2 * Niter ELSE Niter) \div thin

ZeroStore(r, thin, z) ==
    [ci \in 0..(cfg.n_cold_chains - 1) |-> [k \in 0..(StoreLen(r, thin) - 1) |-> z]]

\* the slot of iteration it, when it is stored
Slot(it, thin) == it \div thin

Stored(it, thin) == it % thin = 0

\* an index outside the array raises IndexError
UpdateChainsFails(r, it, thin) ==
    \/ r = 0 /\ it > Niter
    \/ Stored(it, thin) /\ Slot(it, thin) >= StoreLen(r, thin)

StoreAfter(store, ci, it, thin, v) ==
    IF Stored(it, thin) THEN [store EXCEPT ![ci][Slot(it, thin)] = v] ELSE store

AMbufferAfter(buf, r, ci, it, x) ==
    IF r = 0 THEN [buf EXCEPT ![ci][it] = x] ELSE buf

(***************************************************************************)
(* sample(), up to the barrier: initialize(), the first point, its record  *)
(***************************************************************************)
\* 1 / self.temp * lnlike + logp
Posterior(T, l, lp) == XAdd(XMul(XDiv(XOne, T), l), lp)

\* a faulty variant of SetupRaises: the length of the cycle is not checked
SetupNeverRaises(cycle) == FALSE

\* "check length of jump cycle": raise ValueError("No jump proposals specified!")
SetupRaises(cycle) == Len(cycle) = 0

FirstPoint(r, T, len) ==
    IF cfg.resume /\ len > 0
    THEN [x |-> cfg.files[r][1].x, l |-> cfg.files[r][1].lnlike,
          p |-> cfg.files[r][1].lnprob]
    ELSE LET lp == LogP(p0[r])
         IN  IF lp = NegInf
             THEN [x |-> p0[r], l |-> NegInf, p |-> NegInf]
             ELSE [x |-> p0[r], l |-> LogL(p0[r]),
                   p |-> Posterior(T, LogL(p0[r]), lp)]

SampleBegin(r) ==
    /\ pc[r] = "new"
    /\ LET lad == TemperatureLadder(cfg.nchain, cfg.Tmin, cfg.Tmax)
           T == TempOf(r, lad, cfg.hotChain, cfg.nchain)
           reg == InitializeJumpProposals(propCycle[r], jumpDict[r], cfg.weights)
           len == IF cfg.resume /\ cfg.files[r] # NoFile THEN Len(cfg.files[r]) ELSE 0
           first == FirstPoint(r, T, len)
       IN  IF JumpProposalsRaise(cfg.weights)
           THEN /\ pc' = [pc EXCEPT ![r] = "crashed"]
                /\ UNCHANGED <<p0, lnlike0, lnprob0, ladder, temp, AMbuffer,
                               DEbuffer, chain, lnlike, lnprob, propCycle,
                               randomizedPropCycle, jumpDict, resumeLength,
                               registered>>
           ELSE /\ ladder' = [ladder EXCEPT ![r] = lad]
                /\ temp' = [temp EXCEPT ![r] = T]
                /\ propCycle' = [propCycle EXCEPT ![r] = reg.cycle]
                /\ jumpDict' = [jumpDict EXCEPT ![r] = reg.dict]
                /\ registered' = [registered EXCEPT ![r] =
                                     CalledAll(@, RegisterCalls(cfg.weights), 1)]
                /\ AMbuffer' =
                       IF r = 0
                       THEN AMbufferAfter(
                                [ci \in 0..(cfg.n_cold_chains - 1) |->
                                    [k \in 0..Niter |-> ZeroVec]],
                                r, 0, 0,
                                IF SetupRaises(reg.cycle) THEN ZeroVec ELSE first.x)
                       ELSE AMbuffer
                /\ DEbuffer' =
                       IF r = 0
                       THEN [DEbuffer EXCEPT ![r] =
                                [set |-> TRUE,
                                 rows |-> [k \in 1..(cfg.n_cold_chains * (cfg.burn + 1))
                                              |-> ZeroVec]]]
                       ELSE DEbuffer
                /\ IF SetupRaises(reg.cycle) \/ UpdateChainsFails(r, 0, cfg.thin)
                   THEN \* "No jump proposals specified!", or the first record fails
                        /\ pc' = [pc EXCEPT ![r] = "crashed"]
                        /\ UNCHANGED <<p0, lnlike0, lnprob0, chain, lnlike, lnprob,
                                       randomizedPropCycle, resumeLength>>
                   ELSE /\ pc' = [pc EXCEPT ![r] = "barrier"]
                        /\ \E sh \in Shuffles(reg.cycle) :
                               randomizedPropCycle' =
                                   [randomizedPropCycle EXCEPT ![r] = sh]
                        /\ resumeLength' = [resumeLength EXCEPT ![r] = len]
                        /\ p0' = [p0 EXCEPT ![r] = first.x]
                        /\ lnlike0' = [lnlike0 EXCEPT ![r] = first.l]
                        /\ lnprob0' = [lnprob0 EXCEPT ![r] = first.p]
                        /\ chain' = [chain EXCEPT ![r] =
                                        StoreAfter(ZeroStore(r, cfg.thin, ZeroVec), 0, 0,
                                                   cfg.thin, first.x)]
                        /\ lnlike' = [lnlike EXCEPT ![r] =
                                        StoreAfter(ZeroStore(r, cfg.thin, XZero), 0, 0,
                                                   cfg.thin, first.l)]
                        /\ lnprob' = [lnprob EXCEPT ![r] =
                                        StoreAfter(ZeroStore(r, cfg.thin, XZero), 0, 0,
                                                   cfg.thin, first.p)]
    /\ UNCHANGED <<cfg, chainInd, iter, naccepted, swapProposed, nswap_accepted,
                   cov, U, S, M2, mu, runComplete, Neff, chan, swapLog, decLog,
                   lastSwap, updaters, senders, committed, builtDE, lastDraw>>

\* the caller's own call addProposalToCycle(func, weight) on the sampler of
\* process r, before or after sample(); save_jump_stats is an attribute only
\* once initialize() has run
AddProposalToCycle(r) ==
    /\ pc[r] \in {"new", "done"}
    /\ registered[r].own < MaxRegs
    /\ \E func \in Funcs, weight \in 0..MaxWeight :
         /\ propCycle' = [propCycle EXCEPT ![r] = CycleAfterAdd(@, func, weight)]
         /\ jumpDict' = [jumpDict EXCEPT ![r] = DictAfterAdd(@, func, weight)]
         /\ registered' = [registered EXCEPT ![r] = Called(@, func, weight, TRUE)]
         /\ pc' = IF weight # 0 /\ func \notin DOMAIN jumpDict[r] /\ pc[r] = "new"
                  THEN [pc EXCEPT ![r] = "crashed"]
                  ELSE pc
    /\ UNCHANGED <<cfg, chainInd, iter, p0, lnlike0, lnprob0, naccepted,
                   swapProposed, nswap_accepted, ladder, temp, cov, U, S, M2, mu,
                   AMbuffer, DEbuffer, chain, lnlike, lnprob, randomizedPropCycle,
                   resumeLength, runComplete, Neff, chan, swapLog, decLog,
                   lastSwap, updaters, senders, committed, builtDE, lastDraw>>

\* comm.barrier(): nobody leaves before everybody has arrived
Barrier(r) ==
    /\ pc[r] = "barrier"
    /\ \A q \in Procs :
           pc[q] \notin {"new", "crashed"} \/ (pc[q] = "crashed" /\ iter[q] > 0)
    /\ pc' = [pc EXCEPT ![r] = "run"]
    /\ UNCHANGED <<cfg, chainInd, iter, p0, lnlike0, lnprob0, naccepted,
                   swapProposed, nswap_accepted, ladder, temp, cov, U, S, M2, mu,
                   AMbuffer, DEbuffer, chain, lnlike, lnprob, propCycle,
                   randomizedPropCycle, jumpDict, resumeLength, runComplete,
                   Neff, chan, swapLog, decLog, lastSwap, registered, updaters,
                   senders, committed, builtDE, lastDraw>>

(***************************************************************************)
(* _updateRecursive and _updateDEbuffer                                    *)
(***************************************************************************)
XVec(x) == [d \in Dims |-> XInt(x[d])]

RECURSIVE Accumulate(_, _, _, _, _)
\* the loop "for ii in range(mem)" of _updateRecursive, from ii on;
\* acc = [M2, mu, it], row = _AMbuffer[chain_ind]
Accumulate(acc, row, first, ii, mem) ==
    IF ii >= mem THEN acc
    ELSE LET x == XVec(row[first + ii])
             it == acc.it + 1
             diff == [jj \in Dims |-> XSub(x[jj], acc.mu[jj])]
             mu1 == [jj \in Dims |-> XAdd(acc.mu[jj], XDiv(diff[jj], XInt(it)))]
             M21 == [jj \in Dims |-> [kk \in Dims |->
                        XAdd(acc.M2[jj][kk], XMul(diff[jj], XSub(x[kk], mu1[kk])))]]
         IN  Accumulate([M2 |-> M21, mu |-> mu1, it |-> it], row, first, ii + 1, mem)

\* _updateRecursive(iter, mem, chain_ind): the new M2, mu and covariance
UpdateRecursive(M2v, muv, row, iterv, mem) ==
    LET it0 == iterv - mem
        start == IF it0 = 0 THEN [M2 |-> ZeroMat, mu |-> ZeroMu, it |-> it0]
                 ELSE [M2 |-> M2v, mu |-> muv, it |-> it0]
        acc == Accumulate(start, row, iterv - mem, 0, mem)
    IN  [M2 |-> acc.M2, mu |-> acc.mu,
         cov |-> [i \in Dims |-> [j \in Dims |->
                     XDiv(acc.M2[i][j], XInt(acc.it - 1))]]]

\* _updateDEbuffer(iter, burn, chain_ind): _AMbuffer[chain_ind, iter - burn : iter]
UpdateDEbuffer(row, iterv, burnv) ==
    [k \in 1..burnv |-> row[iterv - burnv + k - 1]]

(***************************************************************************)
(* PTMCMCOneStep: the phases before the swap                               *)
(***************************************************************************)
\* a faulty variant of CovDue: without the test of the rank
CovDueOnEveryRank(r, it) == (it - 1) % cfg.covUpdate = 0 /\ (it - 1) # 0

\* "update covariance matrix": due on the coldest process every covUpdate iterations
CovDue(r, it) == (it - 1) % cfg.covUpdate = 0 /\ (it - 1) # 0 /\ r = 0

\* "update DE buffer": due on the coldest process every burn iterations
DEDue(r, it) == (it - 1) % cfg.burn = 0 /\ (it - 1) # 0 /\ r = 0

\* "after burn in, add DE jumps"
DEJoinDue(r, it) == (it - 1) = cfg.burn /\ r = 0 /\ HasKey(cfg.weights, DEName)

\* "check for sent covariance matrix": the receiving side's condition
CovInstall(r, getCovariance) == getCovariance /\ r > 0

\* "check for sent DE buffer": the receiving side's condition
DEInstall(r, getDEbuf) == getDEbuf /\ r > 0 /\ HasKey(cfg.weights, DEName)

\* the comprehension "comm.send(m, dest=rank + 1, tag=t) for rank in range(nchain - 1)"
SendToAll(ch, src, t, m) ==
    [l \in DOMAIN ch |->
        IF l[1] = src /\ l[3] = t /\ l[2] \in 1..(cfg.nchain - 1)
        THEN Append(ch[l], m) ELSE ch[l]]

\* a faulty variant of InstallS: only the first group is factored again
InstallFirstGroupOnly(c) ==
    [ct \in 1..Len(Groups) |->
        IF ct = 1 THEN Svd(SubMatrix(c, Groups[ct])).S
        ELSE Svd(SubMatrix(Cov0, Groups[ct])).S]

\* the factorization a process holds after installing covariance c
InstallU(c) == FactorU(c)
InstallS(c) == FactorS(c)

\* the covariance phase of process r: [crash, M2, mu, cov, U, S, ch, ran, sent]
CovPhase(r, it, ci, getCovariance) ==
    LET due == CovDue(r, it)
        upd == UpdateRecursive(M2[r], mu[r], AMbuffer[ci], it - 1, cfg.covUpdate)
        cov1 == IF due THEN upd.cov ELSE cov[r]
        crash1 == due /\ SvdFails(cov1)
        ch1 == IF due /\ ~crash1 THEN SendToAll(chan, r, TagCov, cov1) ELSE chan
        inst == ~crash1 /\ CovInstall(r, getCovariance)
        cov2 == IF inst THEN Head(ch1[<<0, r, TagCov>>]) ELSE cov1
        ch2 == IF inst THEN Recv(ch1, 0, r, TagCov) ELSE ch1
        crash2 == inst /\ SvdFails(cov2)
    IN  [crash |-> crash1 \/ crash2,
         M2 |-> IF due THEN upd.M2 ELSE M2[r],
         mu |-> IF due THEN upd.mu ELSE mu[r],
         cov |-> cov2,
         U |-> IF crash1 \/ crash2 THEN U[r]
               ELSE IF inst THEN InstallU(cov2)
               ELSE IF due THEN FactorU(cov1) ELSE U[r],
         S |-> IF crash1 \/ crash2 THEN S[r]
               ELSE IF inst THEN InstallS(cov2)
               ELSE IF due THEN FactorS(cov1) ELSE S[r],
         ch |-> ch2,
         ran |-> due,
         sent |-> due /\ ~crash1,
         inst |-> inst]

\* "if prop.DEJump not in self.propCycle": whether the DE proposal is registered
DEJumpInCycle(cycle) == \E k \in 1..Len(cycle) : cycle[k] = DEName

\* the DE phase of process r, on the channels ch the covariance phase left:
\* the buffer, the cycle and the dictionary afterwards
DEPhase(r, it, ci, ch, getDEbuf) ==
    LET due == DEDue(r, it)
        buf1 == IF due
                THEN [set |-> TRUE,
                      rows |-> UpdateDEbuffer(AMbuffer[ci], it - 1, cfg.burn)]
                ELSE DEbuffer[r]
        ch1 == IF due THEN SendToAll(ch, r, TagDE, buf1.rows) ELSE ch
        inst == DEInstall(r, getDEbuf)
        buf2 == IF inst THEN [set |-> TRUE, rows |-> Head(ch1[<<0, r, TagDE>>])]
                ELSE buf1
        ch2 == IF inst THEN Recv(ch1, 0, r, TagDE) ELSE ch1
        w == WeightOf(cfg.weights, DEName)
        reg1 == inst /\ ~DEJumpInCycle(propCycle[r])
        cycle1 == IF reg1 THEN CycleAfterAdd(propCycle[r], DEName, w) ELSE propCycle[r]
        dict1 == IF reg1 THEN DictAfterAdd(jumpDict[r], DEName, w) ELSE jumpDict[r]
        reg2 == DEJoinDue(r, it)
        cycle2 == IF reg2 THEN CycleAfterAdd(cycle1, DEName, w) ELSE cycle1
        dict2 == IF reg2 THEN DictAfterAdd(dict1, DEName, w) ELSE dict1
        calls1 == IF reg1 THEN Called(registered[r], DEName, w, FALSE)
                  ELSE registered[r]
        calls2 == IF reg2 THEN Called(calls1, DEName, w, FALSE) ELSE calls1
    IN  [buf |-> buf2, ch |-> ch2, cycle |-> cycle2, dict |-> dict2,
         calls |-> calls2, shuffle |-> reg1 \/ reg2, ran |-> due, inst |-> inst,
         built |-> buf1.rows]

\* "hastings step": diff > np.log(np.random.rand())
MetropolisAccept(newlnprob, oldlnprob, qxy, logU) ==
    XGt(XAdd(XSub(newlnprob, oldlnprob), qxy), logU)

\* the resume branch: "if resuming, just use previous chain points"
Replaying(r, it) == cfg.resume /\ resumeLength[r] > 0 /\ it < resumeLength[r]

Bump(dict, name, k) == [dict EXCEPT ![name][k] = @ + 1]

\* a faulty variant of LoglCalled: the likelihood is evaluated at every point
LoglAlwaysCalled(lp) == TRUE

\* "compute prior and likelihood": logl is called unless lp == -np.inf
LoglCalled(lp) == lp # NegInf

\* a faulty variant of KwargsFactor: the factorization the step began with
KwargsFactorStale(r, u, s) == <<U[r], S[r]>>

\* update_jump_proposal_kwargs: "U": self.U, "S": self.S, read when _jump is
\* called, u and s being self.U and self.S at that point of the step
KwargsFactor(r, u, s) == <<u, s>>

\* one organic draw: proposal jump proposes y with Hastings ratio qxy
Draw(r, dict, jump, y, qxy, logU, fac) ==
    LET lp == LogP(y)
        called == LoglCalled(lp)
        newlnprob == IF called THEN Posterior(temp[r], LogL(y), lp) ELSE NegInf
        acc == MetropolisAccept(newlnprob, lnprob0[r], qxy, logU)
        d1 == Bump(dict, jump, 1)
        x1 == IF acc THEN y ELSE p0[r]
        l1 == IF acc THEN LogL(y) ELSE lnlike0[r]
        p1 == IF acc THEN newlnprob ELSE lnprob0[r]
        n1 == IF acc THEN naccepted[r] + 1 ELSE naccepted[r]
    IN  [crash |-> acc /\ ~called,
         x |-> x1, l |-> l1, p |-> p1, naccepted |-> n1,
         dict |-> IF acc THEN Bump(d1, jump, 2) ELSE d1,
         log |-> [kind |-> "drawn", infeasible |-> lp = NegInf, called |-> called,
                  accepted |-> acc,
                  moved |-> <<x1, l1, p1, n1>> #
                                <<p0[r], lnlike0[r], lnprob0[r], naccepted[r]>>,
                  counted |-> d1[jump][1] = dict[jump][1] + 1,
                  raised |-> acc /\ ~called, seen |-> fac]]

\* the jump phase of process r: every outcome the step can have
JumpPhase(r, it, buf, cycle, dict, fac) ==
    IF Replaying(r, it)
    THEN LET row == cfg.files[r][it + 1]
         IN  {[crash |-> FALSE, x |-> row.x, l |-> row.lnlike, p |-> row.lnprob,
               naccepted |-> it * row.acc, dict |-> dict,
               log |-> [NoDraw EXCEPT !.kind = "replay"]]}
    ELSE IF ~buf.set
    THEN \* update_jump_proposal_kwargs reads self._DEbuffer: AttributeError
         {[crash |-> TRUE, x |-> p0[r], l |-> lnlike0[r], p |-> lnprob0[r],
           naccepted |-> naccepted[r], dict |-> dict,
           log |-> [NoDraw EXCEPT !.kind = "failed", !.raised = TRUE]]}
    ELSE {Draw(r, dict, jump, y, qxy, logU, fac) :
            jump \in JumpDraws(cycle), y \in cfg.proposals, qxy \in Hastings,
            logU \in LogUs}

(***************************************************************************)
(* PTswap and the rest of the iteration                                    *)
(***************************************************************************)
\* a faulty variant of IsProposer: the swap interval is not looked at
IsProposerEveryIteration(r, it) == r < cfg.nchain - 1

\* "if Tskip is reached": this process proposes a swap to the next hotter one
IsProposer(r, it) == it % cfg.Tskip = 0 /\ r < cfg.nchain - 1

\* "check if next lowest temperature is ready to swap": this process polls
IsListener(r, it) == ~IsProposer(r, it) /\ r > 0

\* logChainSwap of the decider r for the likelihood newlnlike it received
LogChainSwap(r, lself, newlnlike) ==
    XMul(XSub(XDiv(XOne, ladder[r][r - 1]), XDiv(XOne, ladder[r][r])),
         XSub(lself, newlnlike))

\* "if logChainSwap > np.log(np.random.rand())"
SwapAccepted(logChainSwap, logU) == XGt(logChainSwap, logU)

\* a faulty variant of DeciderLike: the decider keeps its own likelihood
DeciderKeepsLike(lself, newlnlike) == lself

\* the likelihood the decider holds after an accepted swap
DeciderLike(lself, newlnlike) == newlnlike

\* the likelihood the proposer holds after an accepted swap: the one received
ProposerLike(lself, received) == received

\* a faulty variant of SwapReturn: 2 for every accepted swap
SwapReturnAccepted(swapProposed_, swapAccepted_) ==
    IF swapAccepted_ THEN 2 ELSE IF swapProposed_ THEN 1 ELSE 0

\* a faulty variant of NewPosterior: the coldest temperature of the ladder
NewPosteriorCold(r, l, x) == Posterior(ladder[r][0], l, LogP(x))

\* "calculate new posterior values": 1 / self.temp * lnlike0 + self.logp(p0)
NewPosterior(r, l, x) == Posterior(temp[r], l, LogP(x))

\* "Return values for colder chain"
SwapReturn(swapProposed_, swapAccepted_) ==
    IF swapProposed_ THEN (IF swapAccepted_ THEN 2 ELSE 1) ELSE 0

\* the effective-sample-size check of sample()
EssDue(r, it) == it % EssEvery = 0 /\ it > 2 * cfg.burn /\ r = 0

\* "stop if reached effective number of samples"
EssBreak(r, neffv) == r = 0 /\ neffv > cfg.neff

\* rank 0 sends the termination signal when its runComplete is set
TermSend(r, done_) == r = 0 /\ done_

\* the process dies of an uncaught exception; what it sent stays sent
Crash(r, it, ch) ==
    /\ pc' = [pc EXCEPT ![r] = "crashed"]
    /\ iter' = [iter EXCEPT ![r] = it]
    /\ chan' = ch
    /\ UNCHANGED <<p0, lnlike0, lnprob0, swapProposed, nswap_accepted, chain,
                   lnlike, lnprob, AMbuffer, Neff, runComplete, chainInd, lastSwap>>

\* the process blocks inside PTswap with the locals x, l, p
Block(r, it, x, l, p, ch, where) ==
    /\ pc' = [pc EXCEPT ![r] = where]
    /\ iter' = [iter EXCEPT ![r] = it]
    /\ p0' = [p0 EXCEPT ![r] = x]
    /\ lnlike0' = [lnlike0 EXCEPT ![r] = l]
    /\ lnprob0' = [lnprob0 EXCEPT ![r] = p]
    /\ chan' = ch
    /\ UNCHANGED <<swapProposed, nswap_accepted, chain, lnlike, lnprob, AMbuffer,
                   Neff, runComplete, chainInd, lastSwap>>

\* PTswap has returned ret with the point (x, l, p): the counters, updateChains,
\* and the end of the loop body of sample()
Finish(r, it, x, l, p, ret, ch, role, exchanged) ==
    LET ci == chainInd[r]
    IN
    /\ lastSwap' = [lastSwap EXCEPT ![r] =
                       [ret |-> ret, role |-> role, exchanged |-> exchanged]]
    /\ swapProposed' = [swapProposed EXCEPT ![r] = IF ret # 0 THEN @ + 1 ELSE @]
    /\ nswap_accepted' = [nswap_accepted EXCEPT ![r] = IF ret = 2 THEN @ + 1 ELSE @]
    /\ p0' = [p0 EXCEPT ![r] = x]
    /\ lnlike0' = [lnlike0 EXCEPT ![r] = l]
    /\ lnprob0' = [lnprob0 EXCEPT ![r] = p]
    /\ IF UpdateChainsFails(r, it, cfg.thin)
       THEN /\ pc' = [pc EXCEPT ![r] = "crashed"]
            /\ iter' = [iter EXCEPT ![r] = it]
            /\ chan' = ch
            /\ UNCHANGED <<chain, lnlike, lnprob, AMbuffer, Neff, runComplete,
                           chainInd>>
       ELSE /\ AMbuffer' = AMbufferAfter(AMbuffer, r, ci, it, x)
            /\ chain' = [chain EXCEPT ![r] = StoreAfter(@, ci, it, cfg.thin, x)]
            /\ lnlike' = [lnlike EXCEPT ![r] = StoreAfter(@, ci, it, cfg.thin, l)]
            /\ lnprob' = [lnprob EXCEPT ![r] = StoreAfter(@, ci, it, cfg.thin, p)]
            /\ \E neffv \in (IF EssDue(r, it) THEN NeffValues ELSE {Neff[r]}),
                  seen \in {Iprobe(ch, 0, r, TagTerm)} :
                 LET brk == EssBreak(r, neffv)
                     last == brk \/ it = Niter - 1
                 IN  /\ Neff' = [Neff EXCEPT ![r] = neffv]
                     /\ chan' = IF ~brk /\ TermSend(r, runComplete[r])
                                THEN SendToAll(ch, r, TagTerm, TRUE) ELSE ch
                     /\ runComplete' = IF ~brk /\ r > 0
                                       THEN [runComplete EXCEPT ![r] = seen]
                                       ELSE runComplete
                     /\ IF last /\ ci + 1 >= cfg.n_cold_chains
                        THEN /\ pc' = [pc EXCEPT ![r] = "done"]
                             /\ iter' = [iter EXCEPT ![r] = it]
                             /\ UNCHANGED chainInd
                        ELSE /\ pc' = [pc EXCEPT ![r] = "run"]
                             /\ iter' = [iter EXCEPT ![r] = IF last THEN 0 ELSE it]
                             /\ chainInd' = [chainInd EXCEPT ![r] =
                                                IF last THEN ci + 1 ELSE ci]

\* a faulty variant of ExchangeSends: the payload is sent whatever was decided
ExchangeSendsAlways(ch, r, acc, l, x) ==
    Send(Send(ch, r, r - 1, TagSwap, l), r, r - 1, TagParams, x)

\* "perform swap" on the decider r: if swapAccepted, it sends its likelihood
\* (tag 18) and, in the Sendrecv, its parameters (tag 19)
ExchangeSends(ch, r, acc, l, x) ==
    IF acc THEN Send(Send(ch, r, r - 1, TagSwap, l), r, r - 1, TagParams, x)
    ELSE ch

\* a faulty variant of AwaitDecision: the proposer goes on without the decision
SkipDecision == "run"

\* swapAccepted = self.comm.recv(source=self.MPIrank + 1, tag=888): where the
\* proposer is once its proposal is sent
AwaitDecision == "propWait"

\* PTswap of process r at iteration it, entered with (x, l, p) on channels ch
Swap(r, it, x, l, p, ch) ==
    IF IsProposer(r, it)
    THEN /\ Block(r, it, x, l, p, Send(ch, r, r + 1, TagSwap, l), AwaitDecision)
         /\ swapLog' = [swapLog EXCEPT ![r] =
                [NoSwapLog EXCEPT !.phase = "proposed", !.propX = x, !.propL = l]]
         /\ UNCHANGED decLog
    ELSE IF IsListener(r, it) /\ Iprobe(ch, r - 1, r, TagSwap)
    THEN \E logU \in LogUs :
           LET newlnlike == Head(ch[<<r - 1, r, TagSwap>>])
               qty == LogChainSwap(r, l, newlnlike)
               acc == SwapAccepted(qty, logU)
               ch1 == Send(Recv(ch, r - 1, r, TagSwap), r, r - 1, TagDecision, acc)
               dlog == [NoDecLog EXCEPT
                           !.phase = "decided", !.accepted = acc,
                           !.propX = swapLog[r - 1].propX, !.propL = newlnlike,
                           !.decX = x, !.decL = l]
           IN  /\ swapLog' = [swapLog EXCEPT ![r - 1] =
                      [@ EXCEPT !.phase = "decided", !.accepted = acc,
                                !.decX = x, !.decL = l, !.qty = qty, !.logU = logU]]
               /\ IF acc
                  THEN /\ Block(r, it, x, DeciderLike(l, newlnlike), p,
                                ExchangeSends(ch1, r, acc, l, x), "decWait")
                       /\ decLog' = [decLog EXCEPT ![r] = dlog]
                  ELSE /\ Finish(r, it, x, l, p, SwapReturn(FALSE, acc),
                                 ExchangeSends(ch1, r, acc, l, x), "decider", FALSE)
                       /\ decLog' = [decLog EXCEPT ![r] =
                              [dlog EXCEPT !.ret = TRUE, !.gotX = x, !.gotL = l]]
    ELSE /\ Finish(r, it, x, l, p, SwapReturn(FALSE, FALSE), ch, "none", FALSE)
         /\ UNCHANGED <<swapLog, decLog>>

\* one pass of the loop body of sample() on process r: PTMCMCOneStep up to the
\* point where PTswap blocks, or to the end of the loop body
Iterate(r) ==
    /\ pc[r] = "run"
    /\ LET it == iter[r] + 1
           ci == chainInd[r]
       IN  \E C \in {CovPhase(r, it, ci, Iprobe(chan, 0, r, TagCov))} :
           \E D \in {DEPhase(r, it, ci, C.ch, Iprobe(chan, 0, r, TagDE))} :
             /\ M2' = [M2 EXCEPT ![r] = C.M2]
             /\ mu' = [mu EXCEPT ![r] = C.mu]
             /\ cov' = [cov EXCEPT ![r] = C.cov]
             /\ U' = [U EXCEPT ![r] = C.U]
             /\ S' = [S EXCEPT ![r] = C.S]
             /\ committed' = IF C.ran THEN committed \cup {C.cov} ELSE committed
             /\ IF C.crash
                THEN /\ Crash(r, it, C.ch)
                     /\ updaters' = updaters \cup (IF C.ran THEN {r} ELSE {})
                     /\ senders' = senders \cup (IF C.sent THEN {r} ELSE {})
                     /\ UNCHANGED <<DEbuffer, propCycle, randomizedPropCycle,
                                    jumpDict, naccepted, swapLog, decLog,
                                    registered, builtDE, lastDraw>>
                ELSE /\ updaters' = updaters \cup
                            (IF C.ran \/ D.ran THEN {r} ELSE {})
                     /\ senders' = senders \cup
                            (IF C.sent \/ D.ran THEN {r} ELSE {})
                     /\ builtDE' = IF D.ran THEN builtDE \cup {D.built} ELSE builtDE
                     /\ DEbuffer' = [DEbuffer EXCEPT ![r] = D.buf]
                     /\ propCycle' = [propCycle EXCEPT ![r] = D.cycle]
                     /\ registered' = [registered EXCEPT ![r] = D.calls]
                     /\ \E sh \in (IF D.shuffle THEN Shuffles(D.cycle)
                                   ELSE {randomizedPropCycle[r]}) :
                          randomizedPropCycle' =
                              [randomizedPropCycle EXCEPT ![r] = sh]
                     /\ \E J \in JumpPhase(r, it, D.buf, D.cycle, D.dict,
                                             KwargsFactor(r, C.U, C.S)) :
                          /\ jumpDict' = [jumpDict EXCEPT ![r] = J.dict]
                          /\ lastDraw' = [lastDraw EXCEPT ![r] = J.log]
                          /\ naccepted' = [naccepted EXCEPT ![r] = J.naccepted]
                          /\ IF J.crash
                             THEN Crash(r, it, D.ch) /\ UNCHANGED <<swapLog, decLog>>
                             ELSE Swap(r, it, J.x, J.l, J.p, D.ch)
    /\ UNCHANGED <<cfg, ladder, temp, resumeLength>>

\* the proposer's recv of the decision returns; on acceptance the exchange
ProposerResume(r) ==
    /\ pc[r] = "propWait"
    /\ Pending(chan, r + 1, r, TagDecision)
    /\ LET swapAccepted == Head(chan[<<r + 1, r, TagDecision>>])
           ch1 == Recv(chan, r + 1, r, TagDecision)
       IN  IF swapAccepted
           THEN /\ Pending(ch1, r + 1, r, TagSwap)
                /\ Pending(ch1, r + 1, r, TagParams)
                /\ LET l == ProposerLike(lnlike0[r], Head(ch1[<<r + 1, r, TagSwap>>]))
                       pnew == Head(ch1[<<r + 1, r, TagParams>>])
                       ch2 == Send(Recv(Recv(ch1, r + 1, r, TagSwap),
                                        r + 1, r, TagParams),
                                   r, r + 1, TagParams, p0[r])
                   IN  /\ Finish(r, iter[r], pnew, l,
                                 NewPosterior(r, l, pnew),
                                 SwapReturn(TRUE, swapAccepted), ch2,
                                 "proposer", TRUE)
                       /\ swapLog' = [swapLog EXCEPT ![r] =
                              [@ EXCEPT !.ret = TRUE, !.gotX = pnew, !.gotL = l]]
           ELSE /\ Finish(r, iter[r], p0[r], lnlike0[r], lnprob0[r],
                          SwapReturn(TRUE, swapAccepted), ch1, "proposer", FALSE)
                /\ swapLog' = [swapLog EXCEPT ![r] =
                       [@ EXCEPT !.ret = TRUE, !.gotX = p0[r],
                                 !.gotL = lnlike0[r]]]
    /\ UNCHANGED <<cfg, ladder, temp, resumeLength, naccepted, cov, U, S, M2, mu,
                   DEbuffer, propCycle, randomizedPropCycle, jumpDict, decLog,
                   registered, updaters, senders, committed, builtDE, lastDraw>>

\* the decider's Sendrecv returns with the proposer's parameters
DeciderResume(r) ==
    /\ pc[r] = "decWait"
    /\ Pending(chan, r - 1, r, TagParams)
    /\ LET pnew == Head(chan[<<r - 1, r, TagParams>>])
       IN  /\ Finish(r, iter[r], pnew, lnlike0[r],
                     NewPosterior(r, lnlike0[r], pnew),
                     SwapReturn(FALSE, TRUE), Recv(chan, r - 1, r, TagParams),
                     "decider", TRUE)
           /\ decLog' = [decLog EXCEPT ![r] =
                  [@ EXCEPT !.ret = TRUE, !.gotX = pnew, !.gotL = lnlike0[r]]]
    /\ UNCHANGED <<cfg, ladder, temp, resumeLength, naccepted, cov, U, S, M2, mu,
                   DEbuffer, propCycle, randomizedPropCycle, jumpDict, swapLog,
                   registered, updaters, senders, committed, builtDE, lastDraw>>

(***************************************************************************)
(* The run of the sampler on the processes of the communicator             *)
(***************************************************************************)
Next ==
    \/ \E r \in Procs : SampleBegin(r)
    \/ \E r \in Procs : Barrier(r)
    \/ \E r \in Procs : Iterate(r)
    \/ \E r \in Procs : ProposerResume(r)
    \/ \E r \in Procs : DeciderResume(r)

Spec == Init /\ [][Next]_vars

\* process q is not blocked: it has not finished or died, and the barrier, the
\* recv or the Sendrecv it is in can return
CanStep(q) ==
    \/ pc[q] \in {"new", "run"}
    \/ /\ pc[q] = "barrier"
       /\ \A o \in Procs :
              pc[o] \notin {"new", "crashed"} \/ (pc[o] = "crashed" /\ iter[o] > 0)
    \/ pc[q] = "propWait" /\ Pending(chan, q + 1, q, TagDecision)
    \/ pc[q] = "decWait" /\ Pending(chan, q - 1, q, TagParams)

\* comm is the caller's communicator: the caller's code on rank 0, once
\* sample() has returned there, sends the termination signal itself
CallerSignals ==
    /\ pc[0] = "done"
    /\ \A d \in Procs \ {0} : ~Pending(chan, 0, d, TagTerm)
    /\ chan' = SendToAll(chan, 0, TagTerm, TRUE)
    /\ UNCHANGED <<cfg, pc, chainInd, iter, p0, lnlike0, lnprob0, naccepted,
                   swapProposed, nswap_accepted, ladder, temp, cov, U, S, M2, mu,
                   AMbuffer, DEbuffer, chain, lnlike, lnprob, propCycle,
                   randomizedPropCycle, jumpDict, resumeLength, runComplete,
                   Neff, swapLog, decLog, lastSwap, registered, updaters,
                   senders, committed, builtDE, lastDraw>>

SignalNext ==
    \/ Next
    \/ CallerSignals

\* the runs in which a termination signal of rank 0 reaches the other processes
SignalSpec == Init /\ [][SignalNext]_vars

(***************************************************************************)
(* One sampler, its proposal cycle built by the weights dict and by the    *)
(* caller's own registrations                                              *)
(***************************************************************************)
CycleInit == \E c \in CycleConfigs : InitState(c)

CycleNext ==
    \/ \E r \in Procs : AddProposalToCycle(r)
    \/ \E r \in Procs : SampleBegin(r)
    \/ \E r \in Procs : Barrier(r)
    \/ \E r \in Procs : Iterate(r)

CycleSpec == CycleInit /\ [][CycleNext]_vars

(***************************************************************************)
(* One sampler started from every point, every point proposed              *)
(***************************************************************************)
\* one process starting from the point st, no DE proposal
Alone(st) ==
    [Config(1, 1, 2, FALSE, NoDE, [r \in 0..0 |-> NoFile], Points)
        EXCEPT !.start = [r \in 0..0 |-> st]]

DrawConfigs == {Alone(st) : st \in Points}

DrawInit == \E c \in DrawConfigs : InitState(c)

DrawNext ==
    \/ \E r \in Procs : SampleBegin(r)
    \/ \E r \in Procs : Barrier(r)
    \/ \E r \in Procs : Iterate(r)

DrawSpec == DrawInit /\ [][DrawNext]_vars

(***************************************************************************)
(* The temperature ladders of 2..MaxChains processes                       *)
(***************************************************************************)
\* the largest number of processes a ladder is computed for
MaxChains == 4

\* Tmin of the ladders
Tmins == {XOne, XInt(2), <<1, 2>>}

\* the ratios of neighbouring temperatures that a given Tmax asks for
Steps == {<<1, 2>>, XOne, XInt(2), XInt(3)}

\* Tmax of the ladders: None, or Tmin * q^(n - 1) for a ratio q
Tmaxes(n, Tmin) == {NaN} \cup {XMul(Tmin, XPow(q, n - 1)) : q \in Steps}

\* n processes set up with Tmin and Tmax
Rungs(n, Tmin, Tmax) ==
    [Config(n, 1, 2, FALSE, NoDE, [r \in 0..(n - 1) |-> NoFile], {PtOut})
        EXCEPT !.Tmin = Tmin, !.Tmax = Tmax]

LadderConfigs ==
    UNION {{Rungs(n, Tmin, Tmax) : Tmax \in Tmaxes(n, Tmin)} :
              n \in 2..MaxChains, Tmin \in Tmins}

LadderInit == \E c \in LadderConfigs : InitState(c)

\* initialize() on every process, up to the barrier
LadderNext == \E r \in Procs : SampleBegin(r)

LadderSpec == LadderInit /\ [][LadderNext]_vars

(***************************************************************************)
(* Two samplers set up with every weights dict over AM and DE              *)
(***************************************************************************)
\* two processes, the weights dict w, no chain files
Pair(w) == Config(2, 1, 2, FALSE, w, [r \in 0..1 |-> NoFile], {PtOut})

SetupConfigs ==
    {Pair(w) : w \in WeightDicts(<<AMName, DEName>>) \cup WeightDicts(<<DEName>>)}

SetupInit == \E c \in SetupConfigs : InitState(c)

SetupSpec == SetupInit /\ [][Next]_vars

(***************************************************************************)
(* One process sampling organically over two passes, with the DE proposal  *)
(* joining after burn-in, and the caller's own registrations               *)
(***************************************************************************)
Twice == Config(1, 2, 2, FALSE, WithDE, [r \in 0..0 |-> NoFile], {PtB, PtOut})

LedgerInit == InitState(Twice)

LedgerSpec == LedgerInit /\ [][CycleNext]_vars

(***************************************************************************)
(* Processes that never meet in a swap: the swap interval is as long as a  *)
(* pass, every process replays its chain file over two passes, with and    *)
(* without the DE proposal among the weights                               *)
(***************************************************************************)
Unsynced(n, w) ==
    Config(n, 2, Niter, FALSE, w, [r \in 0..(n - 1) |-> File(r, Doubling(r))],
           Points)

DrainInit == \E n \in 2..3, w \in {WithDE, NoDE} : InitState(Unsynced(n, w))

DrainSpec == DrainInit /\ [][DrawNext]_vars

(***************************************************************************)
(* The thinning strides from 1 to Niter + 1, on two processes that replay  *)
(* their chain files or sample organically                                 *)
(***************************************************************************)
ThinInit ==
    \E th \in 1..(Niter + 1), c \in {Unsynced(2, WithDE), BothOrganic} :
        InitState([c EXCEPT !.thin = th])

ThinSpec == ThinInit /\ [][Next]_vars

(***************************************************************************)
(* Properties                                                              *)
(***************************************************************************)
\* the state of process q: its sampler object and the locals of its sample()
Local(q) ==
    <<pc[q], chainInd[q], iter[q], p0[q], lnlike0[q], lnprob0[q], naccepted[q],
      swapProposed[q], nswap_accepted[q], ladder[q], temp[q], cov[q], U[q], S[q],
      M2[q], mu[q], DEbuffer[q], chain[q], lnlike[q], lnprob[q], propCycle[q],
      randomizedPropCycle[q], jumpDict[q], resumeLength[q], runComplete[q],
      Neff[q]>>

\* after an accepted swap each participant holds what the other one held
SwapExchanged ==
    \A r \in Procs :
        /\ (swapLog[r].ret /\ swapLog[r].accepted) =>
               /\ swapLog[r].gotX = swapLog[r].decX
               /\ swapLog[r].gotL = swapLog[r].decL
        /\ (decLog[r].ret /\ decLog[r].accepted) =>
               /\ decLog[r].gotX = decLog[r].propX
               /\ decLog[r].gotL = decLog[r].propL

\* a step of the swap between r and r + 1 changes no third process
SwapPairwise ==
    \A r \in Procs :
        swapLog'[r] # swapLog[r] =>
            \A o \in Procs \ {r, r + 1} : Local(o)' = Local(o)

\* C1: when the decider r + 1 accepts the swap proposed by r, then once both
\* PTswap calls have returned, r holds the parameter vector and log-likelihood
\* r + 1 held when it decided, r + 1 holds the parameter vector and
\* log-likelihood r held when it proposed, and no step of the swap changes the
\* state of a third process.
C1_SwapSymmetric == []SwapExchanged /\ [][SwapPairwise]_vars

\* C1, reached: an accepted swap of two different points among three processes,
\* both calls returned
C1_Witness ==
    \E r \in Procs :
        /\ r + 1 \in Procs
        /\ cfg.nchain = 3
        /\ swapLog[r].ret /\ swapLog[r].accepted
        /\ decLog[r + 1].ret /\ decLog[r + 1].accepted
        /\ decLog[r + 1].propX = swapLog[r].propX
        /\ swapLog[r].propX # swapLog[r].decX
        /\ swapLog[r].propL # swapLog[r].decL

\* no step leaves a state in which no process can step
BlockedForGood == [][\E q \in Procs : CanStep(q)]_vars

\* C2: every swap proposal is eventually answered, so no process stays blocked
\* in PTswap: while a process waits for the decision on its proposal and no
\* process has died, some process can still take a step.
C2_ProposalAnswered ==
    \A r \in Procs :
        (pc[r] = "propWait" /\ \A q \in Procs : pc[q] # "crashed") =>
            \E q \in Procs : CanStep(q)

\* the quantity of the swap rule, with the temperatures the two processes
\* sample at
TemperedQuantity(r) ==
    XMul(XSub(XDiv(XOne, temp[r]), XDiv(XOne, temp[r + 1])),
         XSub(swapLog[r].decL, swapLog[r].propL))

\* C3: the quantity the decider r + 1 compares with log(U) is
\* (1/T_colder - 1/T_self) * (l_self - l_colder), T_colder and T_self the
\* temperatures at which r and r + 1 sample, and the swap is accepted iff that
\* quantity is strictly greater than log(U).
C3_DeciderQuantity ==
    \A r \in Procs :
        swapLog[r].phase = "decided" =>
            /\ swapLog[r].qty = TemperedQuantity(r)
            /\ swapLog[r].accepted <=> XGt(TemperedQuantity(r), swapLog[r].logU)

\* C4, as the program has it: PTswap returns 0 exactly when the process did
\* not itself propose a swap in this call (also when it decided a proposal, and
\* also when it accepted it and exchanged its state), 1 when it proposed and
\* the swap was rejected, 2 when it proposed and the swap was accepted.
C4_ReturnCodes ==
    \A r \in Procs :
        lastSwap[r].ret # -1 =>
            /\ lastSwap[r].ret \in {0, 1, 2}
            /\ lastSwap[r].ret = 0 <=> lastSwap[r].role # "proposer"
            /\ lastSwap[r].ret = 1 <=>
                   (lastSwap[r].role = "proposer" /\ ~lastSwap[r].exchanged)
            /\ lastSwap[r].ret = 2 <=>
                   (lastSwap[r].role = "proposer" /\ lastSwap[r].exchanged)

\* C4, reached: a decider has accepted, exchanged its state and returned 0
C4_Witness ==
    \E r \in Procs :
        /\ lastSwap[r] = [ret |-> 0, role |-> "decider", exchanged |-> TRUE]
        /\ decLog[r].ret /\ decLog[r].accepted
        /\ decLog[r].gotX # decLog[r].decX

\* C4, as stated: PTswap returns 0 exactly when no swap was attempted with this
\* process in this call; a call in which the state was exchanged never returns
\* 0.
C4_ZeroMeansNoSwap ==
    \A r \in Procs :
        lastSwap[r].ret # -1 =>
            /\ lastSwap[r].ret = 0 <=> lastSwap[r].role = "none"
            /\ lastSwap[r].exchanged => lastSwap[r].ret # 0

\* C5: when rank 0 has ended its sampling, it has sent the termination signal
\* to every other process.
C5_SignalBeforeReturn ==
    pc[0] = "done" =>
        \A q \in Procs \ {0} : Pending(chan, 0, q, TagTerm)

C7_OnlyColdestAdapts ==
    /\ updaters \subseteq {0}
    /\ senders \subseteq {0}
    /\ \A l \in DOMAIN chan :
           (l[3] \in {TagCov, TagDE} /\ chan[l] # <<>>) => l[1] = 0
    /\ \A r \in Procs :
           r > 0 =>
               /\ cov[r] = Cov0 \/ cov[r] \in committed
               /\ DEbuffer[r].set => DEbuffer[r].rows \in builtDE

\* C7, reached: a process of rank > 0 has installed a covariance and a DE
\* buffer it received
C7_Witness ==
    \E r \in Procs :
        /\ r > 0
        /\ cov[r] # Cov0
        /\ cov[r] \in committed
        /\ DEbuffer[r].set
        /\ pc[r] = "done"

\* C8: on every process that can draw a proposal, every group's (U, S) is the
\* factorization of that group's submatrix of the covariance the process holds.
C8_FactorizationConsistent ==
    \A r \in Procs :
        SvdFails(cov[r]) \/ (U[r] = FactorU(cov[r]) /\ S[r] = FactorS(cov[r]))

\* C8, reached: rank 0 has updated its covariance, a process of rank > 0 has
\* installed a received one that changes every group's factorization, and has
\* drawn a proposal with it
C8_Witness ==
    \E r \in Procs :
        /\ r > 0
        /\ resumeLength[r] = 0
        /\ pc[r] = "done"
        /\ cov[0] # Cov0
        /\ cov[r] = cov[0]
        /\ \A ct \in 1..Len(Groups) : S[r][ct] # FactorS(Cov0)[ct]

\* C9: a call addProposalToCycle(proposal, 0) raises no error and leaves the
\* proposal cycle and the acceptance ledger as they were.
C9_ZeroWeightNoEffect ==
    [][\A r \in Procs :
          (/\ registered'[r].own = registered[r].own + 1
           /\ registered'[r].zero = registered[r].zero + 1) =>
              /\ propCycle'[r] = propCycle[r]
              /\ jumpDict'[r] = jumpDict[r]
              /\ pc'[r] = pc[r]]_vars

\* C9, reached: the caller has registered a proposal with weight 0 on a sampler
\* whose cycle and ledger are in use
C9_Witness ==
    \E r \in Procs :
        /\ pc[r] = "done"
        /\ registered[r].own = 1
        /\ registered[r].zero = 1
        /\ \A k \in 1..Len(cfg.weights) : cfg.weights[k][2] # 0
        /\ Len(propCycle[r]) > 1
        /\ \E f \in DOMAIN jumpDict[r] : jumpDict[r][f][1] > 0

\* the weights registered so far, added up over the proposals
TotalWeight(reg) == reg.total[AMName] + reg.total[SCAMName] + reg.total[DEName]

\* C10: every proposal appears in the cycle as many times as the weights it
\* was registered with add up to, the cycle is as long as the sum of all
\* weights, the proposals a draw can return are exactly those of the cycle, and
\* every proposal drawn so far is one of them.
C10_CycleIsWeightMultiset ==
    \A r \in Procs :
        /\ \A f \in Funcs : Count(propCycle[r], f) = registered[r].total[f]
        /\ Len(propCycle[r]) = TotalWeight(registered[r])
        /\ JumpDraws(propCycle[r]) = {f \in Funcs : registered[r].total[f] > 0}
        /\ \A f \in DOMAIN jumpDict[r] :
               jumpDict[r][f][1] > 0 => f \in JumpDraws(propCycle[r])

\* C10, reached: a cycle built from the weights 2 and 1, both proposals drawn
C10_Witness ==
    \E r \in Procs :
        /\ registered[r].total[AMName] = 2
        /\ registered[r].total[SCAMName] = 1
        /\ Len(propCycle[r]) = 3
        /\ jumpDict[r][AMName][1] > 0
        /\ jumpDict[r][SCAMName][1] > 0

\* the setup of process r fails: the weights name DifferentialEvolution and
\* nothing else, or the registrations of setup leave the cycle empty
SetupFails(r) ==
    \/ Keys(cfg.weights) = <<DEName>>
    \/ \A k \in 1..Len(cfg.weights) :
           cfg.weights[k][1] = DEName \/ cfg.weights[k][2] = 0

\* process r has executed no iteration, recorded nothing and sent nothing
NothingDone(r) ==
    /\ iter[r] = 0
    /\ chain[r] = <<>>
    /\ \A l \in DOMAIN chan : l[1] = r => chan[l] = <<>>

\* C11: when the weights name DifferentialEvolution alone, or the registrations
\* of setup leave the cycle empty, sample() ends in an error raised by
\* initialize(): the process executes no iteration and sends no message.
C11_SetupErrorsAreFatal ==
    \A r \in Procs :
        SetupFails(r) => (pc[r] \in {"new", "crashed"} /\ NothingDone(r))

\* C11, reached: both processes have raised at setup with a cycle left empty by
\* weight 0, the weights naming another proposal besides DifferentialEvolution
C11_Witness ==
    /\ \A r \in Procs : pc[r] = "crashed" /\ NothingDone(r)
    /\ Keys(cfg.weights) = <<AMName, DEName>>
    /\ WeightOf(cfg.weights, AMName) = 0
    /\ WeightOf(cfg.weights, DEName) > 0

\* C12: a Metropolis step whose proposed point has log-prior -inf does not
\* call logl, raises no error and is rejected: the point, its likelihood, its
\* posterior and the acceptance counter are as before, and the proposal's count
\* of proposals has grown by one.
C12_InfeasibleRejected ==
    \A r \in Procs :
        (lastDraw[r].kind = "drawn" /\ lastDraw[r].infeasible) =>
            /\ ~lastDraw[r].called
            /\ ~lastDraw[r].accepted
            /\ ~lastDraw[r].moved
            /\ lastDraw[r].counted
            /\ ~lastDraw[r].raised

\* C12, reached: a point outside the prior's support has been proposed in the
\* last step of a process whose current point has a finite posterior and has
\* been accepted before
C12_Witness ==
    \E r \in Procs :
        /\ lastDraw[r].kind = "drawn" /\ lastDraw[r].infeasible
        /\ IsFinite(lnprob0[r])
        /\ naccepted[r] > 0
        /\ pc[r] = "done"

\* the ladder is strictly increasing
Increasing(lad) ==
    \A i \in DOMAIN lad : i + 1 \in DOMAIN lad => XGt(lad[i + 1], lad[i])

\* the ladder has K temperatures Tmin * r^i, and ends at Tmax when Tmax is given
Geometric(lad) ==
    /\ DOMAIN lad = 0..(cfg.nchain - 1)
    /\ lad[0] = cfg.Tmin
    /\ \A i \in DOMAIN lad : lad[i] = XMul(cfg.Tmin, XPow(XDiv(lad[1], lad[0]), i))
    /\ cfg.Tmax # NaN => lad[cfg.nchain - 1] = cfg.Tmax

MostRecent(row, it, n) == [k \in 1..n |-> row[it - n + k - 1]]

\* C14: when rank 0 has rebuilt its DE buffer in iteration it, the buffer holds
\* exactly the burn points recorded last before the rebuild, the one recorded by
\* iteration it - 1 included.
C14_BufferIsMostRecent ==
    (pc[0] \in {"run", "propWait", "done"} /\ iter[0] > 0 /\ DEDue(0, iter[0])) =>
        /\ Len(DEbuffer[0].rows) = cfg.burn
        /\ DEbuffer[0].rows = MostRecent(AMbuffer[chainInd[0]], iter[0], cfg.burn)

\* C15: on every process the differential-evolution proposal is registered at
\* most once: the cycle holds no copy of it, or exactly as many as its
\* configured weight.
C15_DERegisteredOnce ==
    \A r \in Procs :
        LET copies == Count(propCycle[r], DEName)
        IN  \/ copies = 0
            \/ HasKey(cfg.weights, DEName) /\ copies = WeightOf(cfg.weights, DEName)

\* C16: on every process, whenever a proposal is to be drawn, the context of
\* the proposal can be built: no draw fails for want of a DE buffer.
C16_ContextDefined ==
    \A r \in Procs : lastDraw[r].kind # "failed"

\* process r has recorded iteration i of its current pass
Recorded(r, i) ==
    /\ chain[r] # <<>>
    /\ i <= iter[r]
    /\ i = iter[r] => pc[r] \in {"run", "done"}
    /\ i = 0 => chainInd[r] = 0

\* C17: when process r resumes from a chain file of L rows, what it records for
\* an iteration i < L is row i of the file, and no iteration below L draws a
\* proposal or changes the acceptance ledger.
C17_ReplayIsTheFile ==
    \A r \in Procs :
        resumeLength[r] > 0 =>
            /\ \A i \in 0..(resumeLength[r] - 1) :
                   Recorded(r, i) =>
                       /\ chain[r][chainInd[r]][Slot(i, cfg.thin)] = cfg.files[r][i + 1].x
                       /\ lnlike[r][chainInd[r]][Slot(i, cfg.thin)] =
                              cfg.files[r][i + 1].lnlike
                       /\ lnprob[r][chainInd[r]][Slot(i, cfg.thin)] =
                              cfg.files[r][i + 1].lnprob
            /\ iter[r] < resumeLength[r] =>
                   /\ lastDraw[r].kind \in {"none", "replay"}
                   /\ \A f \in DOMAIN jumpDict[r] : jumpDict[r][f] = <<0, 0>>

(***************************************************************************)
(* C18: at the end of every iteration of a process that started at a point *)
(* of finite log-prior and replays no resume file, after the Metropolis    *)
(* step and after any swap, the current triple (x, l, p) satisfies         *)
(* p = l / T + log_prior(x) with T the process's own temperature; so does  *)
(* the triple the iteration has recorded.                                  *)
(***************************************************************************)
IterationEnded(r) == pc[r] \in {"barrier", "run", "done"} /\ chain[r] # <<>>

FiniteStart(r) == chain[r] # <<>> /\ LogP(chain[r][0][0]) # NegInf

C18_PosteriorIdentity ==
    \A r \in Procs :
        (IterationEnded(r) /\ FiniteStart(r) /\ resumeLength[r] = 0) =>
            /\ lnprob0[r] = Posterior(temp[r], lnlike0[r], LogP(p0[r]))
            /\ Stored(iter[r], cfg.thin) =>
                   LET k == Slot(iter[r], cfg.thin)
                       ci == chainInd[r]
                   IN  lnprob[r][ci][k] =
                           Posterior(temp[r], lnlike[r][ci][k], LogP(chain[r][ci][k]))

\* a hotter process that replays nothing has ended an iteration in which it
\* exchanged its state in an accepted swap
C18_Witness ==
    \E r \in Procs :
        /\ r > 0
        /\ IterationEnded(r) /\ FiniteStart(r) /\ resumeLength[r] = 0
        /\ lastSwap[r].exchanged
        /\ lastDraw[r].kind = "drawn"

(***************************************************************************)
(* C19: a proposer that has sent a swap proposal records no state for the  *)
(* current iteration and starts no further iteration before it has         *)
(* received the decision and, on acceptance, completed the exchange; so    *)
(* between two adjacent processes at most one proposal is outstanding at   *)
(* any time, and a decider never finds two unanswered proposals from its   *)
(* colder neighbour.                                                       *)
(***************************************************************************)
Proposals(r) == chan[<<r, r + 1, TagSwap>>]

\* the proposals process r has sent and not yet seen decided
Unanswered(r) == Len(Proposals(r)) + Len(chan[<<r + 1, r, TagDecision>>])

OneProposalOutstanding ==
    \A r \in Procs :
        r < cfg.nchain - 1 =>
            /\ Unanswered(r) <= 1
            /\ Unanswered(r) = 1 => pc[r] = "propWait"

ProposerWaits ==
    \A r \in Procs :
        pc[r] = "propWait" =>
            /\ <<iter[r], chain[r], lnlike[r], lnprob[r], chainInd[r], swapProposed[r]>>' #
                   <<iter[r], chain[r], lnlike[r], lnprob[r], chainInd[r], swapProposed[r]>>
                  => /\ Pending(chan, r + 1, r, TagDecision)
                     /\ Head(chan[<<r + 1, r, TagDecision>>]) =>
                            /\ Pending(chan, r + 1, r, TagSwap)
                            /\ Pending(chan, r + 1, r, TagParams)
                            /\ p0'[r] = Head(chan[<<r + 1, r, TagParams>>])
                            /\ lnlike0'[r] = Head(chan[<<r + 1, r, TagSwap>>])
                            /\ Len(chan'[<<r, r + 1, TagParams>>]) =
                                   Len(chan[<<r, r + 1, TagParams>>]) + 1
            /\ pc'[r] # "propWait" => Pending(chan, r + 1, r, TagDecision)

C19_OneProposalAtATime == []OneProposalOutstanding /\ [][ProposerWaits]_vars

\* a proposer whose earlier proposal was answered waits for the decision on
\* its next one, which its neighbour has not yet taken up
C19_Witness ==
    \E r \in Procs :
        /\ r < cfg.nchain - 1
        /\ pc[r] = "propWait"
        /\ swapProposed[r] >= 1
        /\ Len(Proposals(r)) = 1

(***************************************************************************)
(* C20: in each iteration a process plays at most one swap role.  It is    *)
(* proposer iff the iteration counter is a multiple of the swap interval   *)
(* and it is not the hottest process; otherwise, iff it is not the coldest *)
(* process, it polls once, without blocking, for a proposal of its         *)
(* next-colder neighbour and is decider only if one is pending.  The       *)
(* hottest process never sends a proposal, the coldest never decides one.  *)
(***************************************************************************)
\* process r runs the loop body for its next iteration and does not die in it
StepOf(r) == pc[r] = "run" /\ iter'[r] # iter[r] /\ pc'[r] # "crashed"

\* the role process r plays in PTswap in this step
RoleTaken(r) ==
    IF pc'[r] = "propWait" THEN "proposer"
    ELSE IF pc'[r] = "decWait" THEN "decider"
    ELSE lastSwap'[r].role

OneSwapRole ==
    \A r \in Procs :
        StepOf(r) =>
            LET it == iter[r] + 1
                due == it % cfg.Tskip = 0 /\ r # cfg.nchain - 1
                ready == r # 0 /\ chan[<<r - 1, r, TagSwap>>] # <<>>
            IN  /\ RoleTaken(r) = "proposer" <=> due
                /\ RoleTaken(r) = "decider" <=> (~due /\ ready)
                /\ RoleTaken(r) = "none" <=> (~due /\ ~ready)
                /\ due => Len(chan'[<<r, r + 1, TagSwap>>]) =
                              Len(chan[<<r, r + 1, TagSwap>>]) + 1
                /\ (~due /\ r # cfg.nchain - 1) =>
                       chan'[<<r, r + 1, TagSwap>>] = chan[<<r, r + 1, TagSwap>>]
                /\ (~due /\ ready) =>
                       /\ chan'[<<r - 1, r, TagSwap>>] = Tail(chan[<<r - 1, r, TagSwap>>])
                       /\ Len(chan'[<<r, r - 1, TagDecision>>]) =
                              Len(chan[<<r, r - 1, TagDecision>>]) + 1
                /\ (~due /\ ~ready) =>
                       /\ pc'[r] \in {"run", "done"}
                       /\ \A d \in Procs \ {r}, t \in {TagSwap, TagDecision, TagParams} :
                              /\ chan'[<<r, d, t>>] = chan[<<r, d, t>>]
                              /\ chan'[<<d, r, t>>] = chan[<<d, r, t>>]

EndsOfTheLadder ==
    /\ pc[cfg.nchain - 1] # "propWait"
    /\ swapProposed[cfg.nchain - 1] = 0
    /\ lastSwap[cfg.nchain - 1].role # "proposer"
    /\ pc[0] # "decWait"
    /\ lastSwap[0].role # "decider"
    /\ \A d \in Procs \ {0} : chan[<<0, d, TagDecision>>] = <<>>
    /\ \A r \in Procs :
           /\ pc[r] = "propWait" => iter[r] % cfg.Tskip = 0
           /\ pc[r] = "decWait" => (iter[r] % cfg.Tskip # 0 \/ r = cfg.nchain - 1)

C20_OneSwapRole == []EndsOfTheLadder /\ [][OneSwapRole]_vars

\* a process between the coldest and the hottest has proposed a swap in one
\* iteration and has decided one in another
C20_Witness ==
    \E r \in Procs :
        /\ 0 < r /\ r < cfg.nchain - 1
        /\ swapProposed[r] >= 1
        /\ lastSwap[r].role = "decider"
        /\ pc[r] \in {"run", "done"}

(***************************************************************************)
(* C21: when a decider rejects a swap, both participants leave PTswap with *)
(* the parameter vector, log-likelihood and log-posterior they entered it  *)
(* with, neither side sends a payload message (exchange likelihood or      *)
(* parameter vector), and no message of that swap is left pending on any   *)
(* channel.                                                                *)
(***************************************************************************)
\* the messages of the swaps between r and r + 1 that are in flight
SwapTraffic(r) ==
    <<chan[<<r, r + 1, TagSwap>>], chan[<<r + 1, r, TagDecision>>],
      chan[<<r + 1, r, TagSwap>>], chan[<<r, r + 1, TagParams>>],
      chan[<<r + 1, r, TagParams>>]>>

Triple(r) == <<p0[r], lnlike0[r], lnprob0[r]>>

RefusedLeavesNothing ==
    \A r \in Procs :
        /\ (swapLog[r].ret /\ ~swapLog[r].accepted) =>
               /\ swapLog[r].gotX = swapLog[r].propX
               /\ swapLog[r].gotL = swapLog[r].propL
               /\ SwapTraffic(r) = <<<<>>, <<>>, <<>>, <<>>, <<>>>>
        /\ (decLog[r].ret /\ ~decLog[r].accepted) =>
               /\ decLog[r].gotX = decLog[r].decX
               /\ decLog[r].gotL = decLog[r].decL
               /\ chan[<<r, r - 1, TagSwap>>] = <<>>
               /\ chan[<<r, r - 1, TagParams>>] = <<>>
               /\ chan[<<r - 1, r, TagParams>>] = <<>>

RefusedKeepsTriple ==
    \A r \in Procs :
        /\ (/\ pc[r] = "propWait" /\ pc'[r] # "propWait"
            /\ ~Head(chan[<<r + 1, r, TagDecision>>])) =>
               /\ Triple(r)' = Triple(r)
               /\ p0[r] = swapLog[r].propX /\ lnlike0[r] = swapLog[r].propL
               /\ chan'[<<r, r + 1, TagParams>>] = chan[<<r, r + 1, TagParams>>]
        /\ (/\ pc[r] = "run" /\ decLog'[r] # decLog[r]
            /\ ~decLog'[r].accepted) =>
               /\ pc'[r] # "decWait"
               /\ chan'[<<r, r - 1, TagSwap>>] = chan[<<r, r - 1, TagSwap>>]
               /\ chan'[<<r, r - 1, TagParams>>] = chan[<<r, r - 1, TagParams>>]
               /\ chan'[<<r, r - 1, TagDecision>>] =
                      Append(chan[<<r, r - 1, TagDecision>>], FALSE)
               /\ <<p0[r], lnlike0[r]>>' = <<decLog'[r].decX, decLog'[r].decL>>
               /\ (lastDraw'[r].kind = "drawn" /\ ~lastDraw'[r].moved) =>
                      Triple(r)' = Triple(r)

C21_RefusedSwapChangesNothing == []RefusedLeavesNothing /\ [][RefusedKeepsTriple]_vars

\* a swap of two different points was refused and both calls have returned
C21_Witness ==
    \E r \in Procs :
        /\ r + 1 \in Procs
        /\ swapLog[r].ret /\ ~swapLog[r].accepted
        /\ decLog[r + 1].ret /\ ~decLog[r + 1].accepted
        /\ decLog[r + 1].propX = swapLog[r].propX
        /\ swapLog[r].propX # swapLog[r].decX
        /\ swapLog[r].propL # swapLog[r].decL

(***************************************************************************)
(* C22: on every process the swap counters never decrease and satisfy      *)
(* 0 <= accepted-swap count <= proposed-swap count; the proposed-swap      *)
(* count of rank r is the number of proposals r has sent to rank r + 1 and *)
(* completed, and its accepted-swap count the number of accept decisions   *)
(* rank r + 1 has sent back to it.                                         *)
(***************************************************************************)
SwapCountsOrdered ==
    \A r \in Procs :
        /\ 0 <= nswap_accepted[r]
        /\ nswap_accepted[r] <= swapProposed[r]
        \* a decision is in flight only to a proposer that waits for it
        /\ (r + 1 \in Procs /\ chan[<<r + 1, r, TagDecision>>] # <<>>) =>
               pc[r] = "propWait"

\* process r completes a proposal in this step: its PTswap returns
Completes(r) == pc[r] = "propWait" /\ pc'[r] # "propWait"

SwapCountsCount ==
    \A r \in Procs :
        /\ swapProposed'[r] = swapProposed[r] + (IF Completes(r) THEN 1 ELSE 0)
        /\ nswap_accepted'[r] =
               nswap_accepted[r] +
                   (IF Completes(r) /\ Head(chan[<<r + 1, r, TagDecision>>])
                    THEN 1 ELSE 0)
        \* a proposal is sent by the step that makes r wait, and by no other
        /\ r + 1 \in Procs =>
               (Len(chan'[<<r, r + 1, TagSwap>>]) > Len(chan[<<r, r + 1, TagSwap>>]))
                   <=> (pc[r] = "run" /\ pc'[r] = "propWait")
        \* a decision is consumed by the step that completes, and by no other
        /\ r + 1 \in Procs =>
               (Len(chan'[<<r + 1, r, TagDecision>>]) <
                    Len(chan[<<r + 1, r, TagDecision>>])) <=> Completes(r)

LedgerOrdered ==
    \A r \in Procs :
        \A f \in DOMAIN jumpDict[r] :
            /\ 0 <= jumpDict[r][f][2]
            /\ jumpDict[r][f][2] <= jumpDict[r][f][1]

\* the pair of proposal f on process r before the step; a name the step
\* enters into the ledger starts from (0, 0)
PairBefore(r, f) == IF f \in DOMAIN jumpDict[r] THEN jumpDict[r][f] ELSE <<0, 0>>

LedgerCounts ==
    \A r \in Procs :
        /\ DOMAIN jumpDict[r] \subseteq DOMAIN jumpDict'[r]
        /\ IF StepOf(r) /\ lastDraw'[r].kind = "drawn"
           THEN \E f \in DOMAIN jumpDict'[r] :
                    /\ \E k \in 1..Len(propCycle'[r]) : propCycle'[r][k] = f
                    /\ jumpDict'[r][f] =
                           <<PairBefore(r, f)[1] + 1,
                             PairBefore(r, f)[2] +
                                 (IF lastDraw'[r].accepted THEN 1 ELSE 0)>>
                    /\ \A g \in DOMAIN jumpDict'[r] \ {f} :
                           jumpDict'[r][g] = PairBefore(r, g)
           ELSE IF pc[r] = "run" /\ pc'[r] = "crashed"
           THEN \A f \in DOMAIN jumpDict'[r], k \in 1..2 :
                    jumpDict'[r][f][k] \in {PairBefore(r, f)[k], PairBefore(r, f)[k] + 1}
           ELSE \A f \in DOMAIN jumpDict'[r] : jumpDict'[r][f] = PairBefore(r, f)

C23_LedgerMonotone == []LedgerOrdered /\ [][LedgerCounts]_vars

\* the coldest process has registered the DE proposal a second time, in its
\* second pass, when that proposal had already been drawn and accepted
C23_Witness ==
    /\ chainInd[0] = 1 /\ iter[0] = 2 /\ pc[0] = "run"
    /\ registered[0].own = 0
    /\ Count(propCycle[0], DEName) = 2
    /\ jumpDict[0][DEName][1] >= 2
    /\ jumpDict[0][DEName][2] >= 1

(***************************************************************************)
(* C24: within one iteration the phases run in the order covariance        *)
(* update, broadcast and receipt; DE-buffer update, broadcast and receipt; *)
(* proposal draw with accept / reject; swap attempt; trajectory recording. *)
(* So the state recorded for iteration i is the state held after that      *)
(* iteration's swap attempt, and the proposal drawn in iteration i sees    *)
(* the covariance factorization installed earlier in the same iteration.   *)
(***************************************************************************)
\* process r has ended an iteration after the first record of its pass
Iterated(r) == pc[r] \in {"run", "done"} /\ iter[r] > 0

C24_PhaseOrder ==
    \A r \in Procs :
        /\ (Iterated(r) /\ Stored(iter[r], cfg.thin)) =>
               LET k == Slot(iter[r], cfg.thin)
                   ci == chainInd[r]
               IN  /\ <<chain[r][ci][k], lnlike[r][ci][k], lnprob[r][ci][k]>> = Triple(r)
                   /\ (lastSwap[r].exchanged /\ lastSwap[r].role = "proposer") =>
                          chain[r][ci][k] = swapLog[r].gotX
                   /\ (lastSwap[r].exchanged /\ lastSwap[r].role = "decider") =>
                          chain[r][ci][k] = decLog[r].gotX
        /\ (Iterated(r) /\ r = 0) => AMbuffer[chainInd[r]][iter[r]] = p0[r]
        /\ lastDraw[r].kind = "drawn" => lastDraw[r].seen = <<U[r], S[r]>>

\* a hotter process that exchanged its state in a swap earlier in the run has
\* installed a covariance matrix it received, drawn a proposal with the new
\* factorization, accepted it and recorded it
C24_Witness ==
    \E r \in Procs :
        /\ r > 0 /\ Iterated(r)
        /\ decLog[r].ret /\ decLog[r].accepted
        /\ lastDraw[r].kind = "drawn" /\ lastDraw[r].accepted
        /\ lastDraw[r].seen # <<FactorU(Cov0), FactorS(Cov0)>>
        /\ lastDraw[r].seen = <<InstallU(cov[r]), InstallS(cov[r])>>
        /\ chain[r][chainInd[r]][Slot(iter[r], cfg.thin)] = p0[r]

(***************************************************************************)
(* C25: after the k-th covariance update on the coldest process (k >= 1)   *)
(* the running moments have accumulated each of the first k * covUpdate    *)
(* points of the cold chain's trajectory exactly once and in trajectory    *)
(* order (sample count k * covUpdate, every accumulated point a state the  *)
(* chain actually recorded), so the committed covariance is the batch      *)
(* sample covariance M2 / (count - 1) of those points; the moments are     *)
(* zeroed only before the very first accumulation of a run.                *)
(***************************************************************************)
RECURSIVE BatchSum(_, _, _)
\* the sum of f[0], ..., f[n - 1]
BatchSum(f, n, acc) == IF n = 0 THEN acc ELSE BatchSum(f, n - 1, XAdd(acc, f[n - 1]))

\* the mean of the first n rows of the history row
BatchMean(row, n) ==
    [j \in Dims |-> XDiv(BatchSum([i \in 0..(n - 1) |-> XInt(row[i][j])], n, XZero),
                         XInt(n))]

\* the sum of the outer products of the first n rows' deviations from their mean
BatchM2(row, n) ==
    LET m == BatchMean(row, n)
    IN  [j \in Dims |-> [k \in Dims |->
            BatchSum([i \in 0..(n - 1) |->
                         XMul(XSub(XInt(row[i][j]), m[j]), XSub(XInt(row[i][k]), m[k]))],
                     n, XZero)]]

\* the coldest process has run a covariance update in the step it is in or
\* has just ended
JustUpdated ==
    /\ pc[0] \in {"run", "propWait", "done"}
    /\ iter[0] > 1
    /\ (iter[0] - 1) % cfg.covUpdate = 0

C25_MomentsAreBatch ==
    JustUpdated =>
        LET n == iter[0] - 1
            row == AMbuffer[chainInd[0]]
        IN  /\ \A i \in 0..(n - 1) :
                   /\ Recorded(0, i)
                   /\ row[i] = chain[0][chainInd[0]][Slot(i, cfg.thin)]
            /\ mu[0] = BatchMean(row, n)
            /\ M2[0] = BatchM2(row, n)
            /\ cov[0] = [j \in Dims |-> [k \in Dims |->
                            XDiv(BatchM2(row, n)[j][k], XInt(n - 1))]]

(***************************************************************************)
(* C26: after a non-coldest process has executed the covariance-receipt    *)
(* phase of an iteration, no covariance message addressed to it remains    *)
(* pending, so the covariance matrix it uses for that iteration's proposal *)
(* is the most recent one the coldest process has sent to it, for every    *)
(* relation between covUpdate and the swap interval and every relative     *)
(* speed of the processes.                                                 *)
(***************************************************************************)
CovDrained ==
    \A r \in Procs \ {0} :
        StepOf(r) =>
            /\ chan'[<<0, r, TagCov>>] = <<>>
            /\ chan[<<0, r, TagCov>>] # <<>> =>
                   cov'[r] = chan[<<0, r, TagCov>>][Len(chan[<<0, r, TagCov>>])]

C26_CovarianceDrained == [][CovDrained]_vars

(***************************************************************************)
(* C27: every DE buffer the coldest process sends is addressed to each     *)
(* other process and is eventually received and installed by each of them  *)
(* while it is still iterating, whatever the configured proposal weights   *)
(* are: an iteration of a process that finds a DE buffer pending receives  *)
(* and installs it, so none stays pending on a process that keeps          *)
(* iterating.                                                              *)
(***************************************************************************)
DEReceived ==
    /\ \A r \in Procs \ {0}, q \in Procs \ {0} :
           (Len(chan'[<<0, r, TagDE>>]) > Len(chan[<<0, r, TagDE>>])) <=>
               (Len(chan'[<<0, q, TagDE>>]) > Len(chan[<<0, q, TagDE>>]))
    /\ \A r \in Procs \ {0} :
           (StepOf(r) /\ chan[<<0, r, TagDE>>] # <<>>) =>
               /\ chan'[<<0, r, TagDE>>] = Tail(chan[<<0, r, TagDE>>])
               /\ DEbuffer'[r] = [set |-> TRUE, rows |-> Head(chan[<<0, r, TagDE>>])]

C27_DEBufferReceived == [][DEReceived]_vars

(***************************************************************************)
(* C28: for every Niter >= 2, thin >= 1 and process rank (maxIter at its   *)
(* default, i0 = 0) every write of updateChains into the trajectory stores *)
(* stays inside the allocated bounds: a state is stored iff iter is a      *)
(* multiple of thin, at slot iter / thin, and iter / thin is less than     *)
(* int(maxIter / thin) for every iteration the run executes; the cold      *)
(* chain's history index iter stays below Niter + 1.                       *)
(***************************************************************************)
C28_WritesInBounds ==
    \A r \in Procs :
        pc[r] # "new" =>
            /\ iter[r] < Niter + 1
            /\ (iter[r] % cfg.thin = 0) =>
                   iter[r] \div cfg.thin <
                       (IF r > 0 THEN 2 * Niter ELSE Niter) \div cfg.thin

====
